---- MODULE Spec2Model ----
(***************************************************************************)
(* The GEMM benchmark of EEE2021AssessmentWork/AssessmentC: the six loop   *)
(* orders of GEMM.c, the blocked and the multithreaded kernels of          *)
(* OptGEMM.c, and the two benchmark drivers (main of each file).           *)
(*                                                                         *)
(* An element of C is kept as the expression the code has built in it: the *)
(* content it was last set to (base) and the products added to it since,   *)
(* in the order of the additions (terms).  A product is the pair of the    *)
(* offsets into A and B that were multiplied.  The double the program      *)
(* holds is the left-to-right floating-point sum of that expression, so    *)
(* two equal expressions are the same double, and the mathematical value   *)
(* is Val below.                                                           *)
(***************************************************************************)
EXTENDS Integers, Sequences, FiniteSets, TLC

\* ------------------------------------------------------------ bounds

\* Largest matrix dimension of the kernel harness (SpecKernel).
MaxDim == 2
\* Largest thread count of the kernel harness.
MaxThreads == 3
\* Consecutive kernel calls of the kernel harness.
MaxCalls == 2
\* Number of matrix sizes the benchmark drivers run (sizes 1..NumSizes).
NumSizes == 2

\* --------------------------------------------------- program constants

NUM_RUNS == 3
DEFAULT_NUM_THREADS == 4
DEFAULT_BLOCK_SIZE == 32
\* The largest value of the C type int (32 bits).
INT_MAX == 2147483647
INT_MIN == -INT_MAX - 1

\* ------------------------------------------------- C int arithmetic
\* block_size comes from the command line and may be as large as INT_MAX,
\* so the operations on it keep the width of int.  The W operators give the
\* two's complement result, the Ovf predicates say that the C operation
\* overflowed (undefined behaviour, see build).

AddOvf(a, b) ==
    \/ b > 0 /\ a > INT_MAX - b
    \/ b < 0 /\ a < INT_MIN - b

AddW(a, b) ==
    IF b > 0 /\ a > INT_MAX - b THEN ((a - INT_MAX) - 1) + ((b - INT_MAX) - 1)
    ELSE IF b < 0 /\ a < INT_MIN - b THEN ((a + INT_MAX) + 1) + ((b + INT_MAX) + 1)
    ELSE a + b

NegW(a) == IF a = INT_MIN THEN INT_MIN ELSE -a

\* a * b for a small multiplier a (a block or thread index), by repeated addition.
RECURSIVE MulW(_, _)
MulW(a, b) ==
    IF a = 0 THEN 0
    ELSE IF a < 0 THEN NegW(MulW(-a, b))
    ELSE AddW(MulW(a - 1, b), b)

RECURSIVE MulOvf(_, _)
MulOvf(a, b) ==
    IF a = 0 \/ b = 0 THEN FALSE
    ELSE IF a < 0 THEN (b = INT_MIN \/ MulOvf(-a, -b))
    ELSE MulOvf(a - 1, b) \/ AddOvf(MulW(a - 1, b), b)

\* C's integer division truncates toward zero (b > 0 here).
CDiv(a, b) ==
    IF a >= 0 \/ a % b = 0 THEN a \div b ELSE (a \div b) + 1

\* ------------------------------------------------------- partitioning

\* The row count per worker with the division rounded down instead of up.
rows_per_thread_floor(mm, T) == CDiv(mm, T)

\* mt_mnk_thread's row range.  m and num_threads are small here (num_threads
\* sizes two arrays on the caller's stack), so these operations do not overflow.
rows_per_thread(mm, T) == CDiv(mm + T - 1, T)

start_row(mm, T, t) == t * rows_per_thread(mm, T)

end_row(mm, T, t) ==
    IF start_row(mm, T, t) + rows_per_thread(mm, T) < mm
    THEN start_row(mm, T, t) + rows_per_thread(mm, T)
    ELSE mm

\* mt_blocked_mnk_thread's row-block range and the row range derived from it.
i_blocks(mm, bs) == CDiv(AddW(AddW(mm, bs), -1), bs)

blocks_per_thread(mm, bs, T) == CDiv(i_blocks(mm, bs) + T - 1, T)

start_block(mm, bs, T, t) == t * blocks_per_thread(mm, bs, T)

end_block(mm, bs, T, t) ==
    IF start_block(mm, bs, T, t) + blocks_per_thread(mm, bs, T) < i_blocks(mm, bs)
    THEN start_block(mm, bs, T, t) + blocks_per_thread(mm, bs, T)
    ELSE i_blocks(mm, bs)

start_i(mm, bs, T, t) == MulW(start_block(mm, bs, T, t), bs)

end_i(mm, bs, T, t) ==
    IF MulW(end_block(mm, bs, T, t), bs) < mm
    THEN MulW(end_block(mm, bs, T, t), bs)
    ELSE mm

\* Some int operation of lines 195-201 overflows for this worker.
BlockRangeOvf(mm, bs, T, t) ==
    \/ AddOvf(mm, bs)
    \/ AddOvf(AddW(mm, bs), -1)
    \/ MulOvf(start_block(mm, bs, T, t), bs)
    \/ MulOvf(end_block(mm, bs, T, t), bs)

\* --------------------------------------------------------- loop nests

\* The loop variables of a kernel, outermost first.
Order(kind) ==
    CASE kind \in {"mnk", "mt"} -> <<"i", "j", "p">>
      [] kind = "mkn" -> <<"i", "p", "j">>
      [] kind = "nmk" -> <<"j", "i", "p">>
      [] kind = "nkm" -> <<"j", "p", "i">>
      [] kind = "kmn" -> <<"p", "i", "j">>
      [] kind = "knm" -> <<"p", "j", "i">>
      [] kind \in {"blocked", "mtb"} -> <<"i0", "j0", "p0", "i", "j", "p">>

Tiled(kind) == kind \in {"blocked", "mtb"}

\* A kernel's context: ctx.lo and ctx.hi are the worker's range (start_row and
\* end_row, or start_i and end_i) and are 0 and m for a single-threaded kernel.
\* The initial value of a loop variable (the first clause of its for).
LoopInit(ctx, var, v) ==
    CASE var = "i0" -> IF ctx.kind = "mtb" THEN ctx.lo ELSE 0
      [] var \in {"j0", "p0"} -> 0
      [] var = "i" -> IF Tiled(ctx.kind) THEN v.i0
                      ELSE IF ctx.kind = "mt" THEN ctx.lo ELSE 0
      [] var = "j" -> IF Tiled(ctx.kind) THEN v.j0 ELSE 0
      [] var = "p" -> IF Tiled(ctx.kind) THEN v.p0 ELSE 0

\* The bound a loop variable stays below (the second clause of its for).
LoopBound(ctx, var, v) ==
    CASE var = "i0" -> IF ctx.kind = "mtb" THEN ctx.hi ELSE ctx.m
      [] var = "j0" -> ctx.n
      [] var = "p0" -> ctx.k
      [] var = "i" -> IF Tiled(ctx.kind)
                      THEN (IF AddW(v.i0, ctx.bs) < ctx.m THEN AddW(v.i0, ctx.bs) ELSE ctx.m)
                      ELSE IF ctx.kind = "mt" THEN ctx.hi ELSE ctx.m
      [] var = "j" -> IF Tiled(ctx.kind)
                      THEN (IF AddW(v.j0, ctx.bs) < ctx.n THEN AddW(v.j0, ctx.bs) ELSE ctx.n)
                      ELSE ctx.n
      [] var = "p" -> IF Tiled(ctx.kind)
                      THEN (IF AddW(v.p0, ctx.bs) < ctx.k THEN AddW(v.p0, ctx.bs) ELSE ctx.k)
                      ELSE ctx.k

\* The increment of a loop variable (the third clause of its for).
LoopStep(ctx, var) == IF var \in {"i0", "j0", "p0"} THEN ctx.bs ELSE 1

NoIteration == [done |-> TRUE, v |-> [i0 |-> 0, j0 |-> 0, p0 |-> 0, i |-> 0, j |-> 0, p |-> 0]]

\* LoopEnter starts the loop of a level, LoopTest evaluates its condition and
\* LoopIncr runs its increment: together they lead from one execution of the
\* innermost statement to the next, or to the end of the nest (done).
RECURSIVE LoopEnter(_, _, _), LoopTest(_, _, _), LoopIncr(_, _, _)
LoopEnter(ctx, lvl, v) ==
    LET var == Order(ctx.kind)[lvl]
    IN  LoopTest(ctx, lvl, [v EXCEPT ![var] = LoopInit(ctx, var, v)])

\* The test of a for loop with <= in place of <.
LoopTestInclusive(ctx, lvl, v) ==
    LET var == Order(ctx.kind)[lvl]
    IN  IF v[var] <= LoopBound(ctx, var, v)
        THEN IF lvl = Len(Order(ctx.kind))
             THEN [done |-> FALSE, v |-> v]
             ELSE LoopEnter(ctx, lvl + 1, v)
        ELSE IF lvl = 1 THEN NoIteration ELSE LoopIncr(ctx, lvl - 1, v)

LoopTest(ctx, lvl, v) ==
    LET var == Order(ctx.kind)[lvl]
    IN  IF v[var] < LoopBound(ctx, var, v)
        THEN IF lvl = Len(Order(ctx.kind))
             THEN [done |-> FALSE, v |-> v]
             ELSE LoopEnter(ctx, lvl + 1, v)
        ELSE IF lvl = 1 THEN NoIteration ELSE LoopIncr(ctx, lvl - 1, v)

LoopIncr(ctx, lvl, v) ==
    LET var == Order(ctx.kind)[lvl]
    IN  LoopTest(ctx, lvl, [v EXCEPT ![var] = AddW(@, LoopStep(ctx, var))])

FirstIteration(ctx) == LoopEnter(ctx, 1, NoIteration.v)

NextIteration(ctx, v) == LoopIncr(ctx, Len(Order(ctx.kind)), v)

\* ------------------------------------------------ the innermost statement

\* e = A[a] * B[b]: the product stored in place of being added.
AccOverwrite(e, a, b) == [base |-> "zero", terms |-> << <<a, b>> >>]

\* e += A[a] * B[b]
Acc(e, a, b) == [e EXCEPT !.terms = Append(@, <<a, b>>)]

\* C[i*n + j] += A[i*k + p] * B[p*n + j];
Body(ctx, v, Cm) ==
    [Cm EXCEPT ![v.i * ctx.n + v.j] = Acc(@, v.i * ctx.k + v.p, v.p * ctx.n + v.j)]

\* The statement's three accesses are inside the matrices.
InBounds(ctx, v) ==
    /\ v.i \in 0 .. ctx.m - 1
    /\ v.j \in 0 .. ctx.n - 1
    /\ v.p \in 0 .. ctx.k - 1

\* A single-threaded kernel, from its first iteration to its last.
RECURSIVE RunFrom(_, _, _)
RunFrom(ctx, it, Cm) ==
    IF it.done THEN Cm
    ELSE RunFrom(ctx, NextIteration(ctx, it.v), Body(ctx, it.v, Cm))

Ctx(kind, mm, nn, kk, bs, lo, hi) ==
    [kind |-> kind, m |-> mm, n |-> nn, k |-> kk, bs |-> bs, lo |-> lo, hi |-> hi]

\* mnk_gemm .. knm_gemm and blocked_mnk_gemm: C after the call.
RunKernel(kind, mm, nn, kk, bs, Cm) ==
    LET ctx == Ctx(kind, mm, nn, kk, bs, 0, mm)
    IN  RunFrom(ctx, FirstIteration(ctx), Cm)

\* A zeroed element, and the value of an element for given A and B.
Zero == [base |-> "zero", terms |-> <<>>]

RECURSIVE SumTerms(_, _, _)
SumTerms(terms, Am, Bm) ==
    IF terms = <<>> THEN 0
    ELSE Am[Head(terms)[1]] * Bm[Head(terms)[2]] + SumTerms(Tail(terms), Am, Bm)

Val(e, Am, Bm) == SumTerms(e.terms, Am, Bm)

\* ------------------------------------------------------------- state

VARIABLES
    prog,          \* "GEMM" or "OptGEMM" (the two mains), "kernel": a caller of one
                   \* kernel, or one of the two RISC-V programs
    argv,          \* main's argv[1 ..], each a string
    cpu,           \* the RISC-V machine: pc, registers, stack, console
    build,         \* what the build did on a signed overflow: "wrap" or "trap"
                   \* ("unseen" until the first one)
    proc,          \* the process: "run", "exit0", "exit1", "abort", "segv", "corrupt"
    pc,            \* main's position
    num_threads,   \* main's num_threads
    block_size,    \* main's block_size
    s, f, run,     \* main's loop variables: size index, kernel index, run
    m, n, k,       \* the matrix dimensions
    A, B, C,       \* the three buffers, by offset
    heap,          \* the buffers: "none", "live" or "freed"
    rng,           \* the state of rand()
    hk,            \* the kernel a "kernel" caller calls
    c0,            \* the content of C's elements before its first call
    calls,         \* kernel calls returned
    kpc,           \* inside mt_mnk_gemm / mt_blocked_mnk_gemm: "none", "create", "join"
    tj,            \* the t of the create and join loops
    thr,           \* the workers of the current call, by thread_id
    fbuf, disk,    \* results_file: buffered by stdio, and written to the file
    file,          \* results_file: "closed" or "open"
    log,           \* the kernel invocations so far, as <<s, f, run>>
    writes,        \* the stores of the current call's workers: [t, buf, off]
    created,       \* pthread_create calls so far
    joined,        \* pthread_join returns so far
    allocs, frees, \* init_matrices and free_matrices calls so far
    badAccess      \* a buffer was accessed while not live

vars == <<prog, argv, cpu, build, proc, pc, num_threads, block_size, s, f, run, m, n, k,
          A, B, C, heap, rng, hk, c0, calls, kpc, tj, thr, fbuf, disk, file,
          log, writes, created, joined, allocs, frees, badAccess>>

\* The RISC-V machine of a C program (not modelled).
NoCpu == [st |-> "off"]

\* The matrix sizes of the benchmark.  The program's list is
\* {10, ..., 100, 200, 300, 400}; here it is the first NumSizes sizes 1, 2, ...
sizes == [x \in 1 .. NumSizes |-> x]

num_sizes == Len(sizes)

\* funcs / func_names of each main, in declaration order.
funcs(pr) ==
    IF pr = "GEMM" THEN <<"mnk", "mkn", "nmk", "nkm", "kmn", "knm">>
    ELSE <<"mnk", "blocked", "mt", "mtb">>

num_funcs(pr) == Len(funcs(pr))

Threaded(kind) == kind \in {"mt", "mtb"}

\* The kernel the current invocation calls.
CurKind == IF prog = "kernel" THEN hk ELSE funcs(prog)[f + 1]

Idle == [st |-> "idle", lo |-> 0, hi |-> 0, it |-> NoIteration]

Garbage == [base |-> "garbage", terms |-> <<>>]

\* ------------------------------------------------------ kernel calls

\* The call of the kernel: a single-threaded kernel runs to its end; a
\* multithreaded one declares threads[] and args[] and enters its create loop.
Invoke ==
    /\ proc = "run" /\ pc = "invoke" /\ kpc = "none"
    /\ log' = Append(log, <<s, f, run>>)
    /\ badAccess' = (badAccess \/ heap # "live")
    /\ IF Threaded(CurKind)
       THEN /\ kpc' = "create"
            /\ tj' = 0
            /\ thr' = [t \in 0 .. num_threads - 1 |-> Idle]
            /\ writes' = {}
            /\ UNCHANGED <<pc, C, calls>>
       ELSE /\ C' = RunKernel(CurKind, m, n, k, block_size, C)
            /\ pc' = "returned"
            /\ calls' = calls + 1
            /\ UNCHANGED <<kpc, tj, thr, writes>>
    /\ UNCHANGED <<prog, argv, cpu, build, proc, num_threads, block_size, s, f, run, m, n, k,
                   A, B, heap, rng, hk, c0, fbuf, disk, file, created, joined,
                   allocs, frees>>

\* One pass of the create loop: args[t] is filled and worker t is created.
Create ==
    /\ proc = "run" /\ kpc = "create"
    /\ thr' = [thr EXCEPT ![tj].st = "start"]
    /\ created' = created + 1
    /\ IF tj + 1 < num_threads
       THEN tj' = tj + 1 /\ kpc' = kpc
       ELSE tj' = 0 /\ kpc' = "join"
    /\ UNCHANGED <<prog, argv, cpu, build, proc, pc, num_threads, block_size, s, f, run, m, n, k,
                   A, B, C, heap, rng, hk, c0, calls, fbuf, disk, file, log, writes,
                   joined, allocs, frees, badAccess>>

\* The join loop without the wait: a pass goes on whether or not the worker has
\* returned (as if the thread were detached).
JoinNoWait ==
    /\ proc = "run" /\ kpc = "join"
    /\ thr' = [thr EXCEPT ![tj].st = IF @ = "done" THEN "joined" ELSE @]
    /\ joined' = joined + 1
    /\ IF tj + 1 < num_threads
       THEN tj' = tj + 1 /\ UNCHANGED <<kpc, pc, calls>>
       ELSE tj' = 0 /\ kpc' = "none" /\ pc' = "returned" /\ calls' = calls + 1
    /\ UNCHANGED <<prog, argv, cpu, build, proc, num_threads, block_size, s, f, run, m, n, k,
                   A, B, C, heap, rng, hk, c0, fbuf, disk, file, log, writes,
                   created, allocs, frees, badAccess>>

\* One pass of the join loop: pthread_join returns once worker t has returned.
\* After the last pass the kernel returns to its caller.
Join ==
    /\ proc = "run" /\ kpc = "join"
    /\ thr[tj].st = "done"
    /\ thr' = [thr EXCEPT ![tj].st = "joined"]
    /\ joined' = joined + 1
    /\ IF tj + 1 < num_threads
       THEN tj' = tj + 1 /\ UNCHANGED <<kpc, pc, calls>>
       ELSE tj' = 0 /\ kpc' = "none" /\ pc' = "returned" /\ calls' = calls + 1
    /\ UNCHANGED <<prog, argv, cpu, build, proc, num_threads, block_size, s, f, run, m, n, k,
                   A, B, C, heap, rng, hk, c0, fbuf, disk, file, log, writes,
                   created, allocs, frees, badAccess>>

\* The range of worker t, as its thread function computes it.
WorkerLo(t) ==
    IF CurKind = "mt" THEN start_row(m, num_threads, t)
    ELSE start_i(m, block_size, num_threads, t)

WorkerHi(t) ==
    IF CurKind = "mt" THEN end_row(m, num_threads, t)
    ELSE end_i(m, block_size, num_threads, t)

WorkerCtx(t) == Ctx(CurKind, m, n, k, block_size, thr[t].lo, thr[t].hi)

\* A worker starts: it reads its arguments, computes its range and reaches the
\* first execution of the innermost statement, or returns when there is none.
\* A signed overflow in the range computation aborts a trapping build.
WorkerBegin(t) ==
    /\ proc = "run" /\ kpc # "none"
    /\ t \in DOMAIN thr /\ thr[t].st = "start"
    /\ LET ctx == Ctx(CurKind, m, n, k, block_size, WorkerLo(t), WorkerHi(t))
           it == FirstIteration(ctx)
           go == /\ thr' = [thr EXCEPT ![t] = [st |-> IF it.done THEN "done" ELSE "loop",
                                               lo |-> ctx.lo, hi |-> ctx.hi, it |-> it]]
                 /\ proc' = proc
       IN  IF CurKind = "mtb" /\ BlockRangeOvf(m, block_size, num_threads, t)
           THEN \/ build # "wrap" /\ build' = "trap" /\ proc' = "abort" /\ thr' = thr
                \/ build # "trap" /\ build' = "wrap" /\ go
           ELSE build' = build /\ go
    /\ UNCHANGED <<prog, argv, cpu, pc, num_threads, block_size, s, f, run, m, n, k,
                   A, B, C, heap, rng, hk, c0, calls, kpc, tj, fbuf, disk, file, log,
                   writes, created, joined, allocs, frees, badAccess>>

\* A worker executes the innermost statement once and goes on to the next
\* execution, or returns after the last.
WorkerStep(t) ==
    /\ proc = "run" /\ kpc # "none"
    /\ t \in DOMAIN thr /\ thr[t].st = "loop"
    /\ InBounds(WorkerCtx(t), thr[t].it.v)
    /\ LET v == thr[t].it.v
           nx == NextIteration(WorkerCtx(t), v)
       IN  /\ C' = Body(WorkerCtx(t), v, C)
           /\ writes' = writes \cup {[t |-> t, buf |-> "C", off |-> v.i * n + v.j]}
           /\ thr' = [thr EXCEPT ![t].it = nx,
                                 ![t].st = IF nx.done THEN "done" ELSE "loop"]
    /\ badAccess' = (badAccess \/ heap # "live")
    /\ UNCHANGED <<prog, argv, cpu, build, proc, pc, num_threads, block_size, s, f, run, m, n, k,
                   A, B, heap, rng, hk, c0, calls, kpc, tj, fbuf, disk, file, log,
                   created, joined, allocs, frees>>

\* The innermost statement with a row outside the matrix (a wrapped start_i):
\* the store is outside C.  It faults, or it lands in some cell of the heap;
\* what the process does after it is not followed.
WildStore(t) ==
    /\ proc = "run" /\ kpc # "none"
    /\ t \in DOMAIN thr /\ thr[t].st = "loop"
    /\ ~InBounds(WorkerCtx(t), thr[t].it.v)
    /\ \/ /\ proc' = "segv"
          /\ UNCHANGED <<A, B, C, writes>>
       \/ /\ proc' = "corrupt"
          /\ \E off \in DOMAIN A :
                /\ A' = [A EXCEPT ![off] = -1]
                /\ writes' = writes \cup {[t |-> t, buf |-> "A", off |-> off]}
          /\ UNCHANGED <<B, C>>
       \/ /\ proc' = "corrupt"
          /\ \E off \in DOMAIN B :
                /\ B' = [B EXCEPT ![off] = -1]
                /\ writes' = writes \cup {[t |-> t, buf |-> "B", off |-> off]}
          /\ UNCHANGED <<A, C>>
       \/ /\ proc' = "corrupt"
          /\ \E off \in DOMAIN C :
                /\ C' = [C EXCEPT ![off] = Garbage]
                /\ writes' = writes \cup {[t |-> t, buf |-> "C", off |-> off]}
          /\ UNCHANGED <<A, B>>
    /\ UNCHANGED <<prog, argv, cpu, build, pc, num_threads, block_size, s, f, run, m, n, k,
                   heap, rng, hk, c0, calls, kpc, tj, thr, fbuf, disk, file, log,
                   created, joined, allocs, frees, badAccess>>

\* ------------------------------------------------- a caller of one kernel

\* The kernels of the two files.
Kinds == {"mnk", "mkn", "nmk", "nkm", "kmn", "knm", "blocked", "mt", "mtb"}

\* Block sizes: dividing and not dividing the dimension, larger than it, and
\* two of the largest an int argument can carry.
BlockSizes == {1, 2, MaxDim + 1, 1500000000, INT_MAX}

\* The operands of the caller: A holds 1, 2, ... and B goes on where A ends, so
\* that m = n = k = 2 gives A = [[1,2],[3,4]] and B = [[5,6],[7,8]].
TestA(mm, kk) == [off \in 0 .. mm * kk - 1 |-> off + 1]

TestB(mm, nn, kk) == [off \in 0 .. kk * nn - 1 |-> mm * kk + off + 1]

InitKernel ==
    /\ prog = "kernel"
    /\ argv = <<>> /\ cpu = NoCpu
    /\ build = "unseen"
    /\ proc = "run"
    /\ pc = "invoke"
    /\ hk \in Kinds
    /\ num_threads \in (IF Threaded(hk) THEN 1 .. MaxThreads ELSE {1})
    /\ block_size \in (IF Tiled(hk) THEN BlockSizes ELSE {1})
    /\ s = 0 /\ f = 0 /\ run = 0
    /\ m \in 0 .. MaxDim /\ n \in 0 .. MaxDim /\ k \in 0 .. MaxDim
    /\ A = TestA(m, k)
    /\ B = TestB(m, n, k)
    /\ c0 \in {"zero", "c0"}
    /\ C = [off \in 0 .. m * n - 1 |-> [base |-> c0, terms |-> <<>>]]
    /\ heap = "live"
    /\ rng = 0
    /\ calls = 0
    /\ kpc = "none" /\ tj = 0 /\ thr = <<>>
    /\ fbuf = <<>> /\ disk = <<>> /\ file = "closed"
    /\ log = <<>> /\ writes = {}
    /\ created = 0 /\ joined = 0 /\ allocs = 1 /\ frees = 0
    /\ badAccess = FALSE

\* The caller calls the same kernel again, without a reset of C.
Again ==
    /\ proc = "run" /\ prog = "kernel" /\ pc = "returned"
    /\ calls < MaxCalls
    /\ pc' = "invoke"
    /\ UNCHANGED <<prog, argv, cpu, build, proc, num_threads, block_size, s, f, run, m, n, k,
                   A, B, C, heap, rng, hk, c0, calls, kpc, tj, thr, fbuf, disk, file,
                   log, writes, created, joined, allocs, frees, badAccess>>

Begin == \E t \in DOMAIN thr : WorkerBegin(t)

Step == \E t \in DOMAIN thr : WorkerStep(t)

Wild == \E t \in DOMAIN thr : WildStore(t)

NextKernel == Invoke \/ Create \/ Join \/ Begin \/ Step \/ Wild \/ Again

SpecKernel == InitKernel /\ [][NextKernel]_vars

\* ------------------------------------------------------ the two mains

\* Seeds of srand(time(NULL)) that are tried.
MaxSeed == 1
\* rand() yields 0 .. RandMax (RAND_MAX, scaled down).
RandMax == 7

\* rand(): the generator's next state, which is also the value returned.
Rand(x) == (5 * x + 3) % (RandMax + 1)

\* The value of the c-th call of rand() from state x (c >= 1).
RECURSIVE RandNth(_, _)
RandNth(x, c) == IF c <= 1 THEN Rand(x) ELSE RandNth(Rand(x), c - 1)

\* atoi: an optional sign, then the digits up to the first other character.
Digit == [c \in {"0", "1", "2", "3", "4", "5", "6", "7", "8", "9"} |->
            CASE c = "0" -> 0 [] c = "1" -> 1 [] c = "2" -> 2 [] c = "3" -> 3
              [] c = "4" -> 4 [] c = "5" -> 5 [] c = "6" -> 6 [] c = "7" -> 7
              [] c = "8" -> 8 [] c = "9" -> 9]

RECURSIVE AtoiDigits(_, _)
AtoiDigits(str, acc) ==
    IF str = <<>> \/ Head(str) \notin DOMAIN Digit THEN acc
    ELSE AtoiDigits(Tail(str), acc * 10 + Digit[Head(str)])

atoi(str) ==
    IF str = <<>> THEN 0
    ELSE IF Head(str) = "-" THEN -AtoiDigits(Tail(str), 0)
    ELSE IF Head(str) = "+" THEN AtoiDigits(Tail(str), 0)
    ELSE AtoiDigits(str, 0)

\* The command lines that are tried (argv[1], argv[2]; each a string).
Argvs ==
    { <<>>,
      << <<"2">> >>,
      << <<"0">>, <<"-", "7">> >>,
      << <<"a", "b", "c">>, <<"2", "x">> >>,
      << <<"3">>, <<"1", "5", "0", "0", "0", "0", "0", "0", "0", "0">> >>,
      << <<"1">>, <<"2", "1", "4", "7", "4", "8", "3", "6", "4", "7">> >> }

\* main's parse of the command line (OptGEMM.c).
ParseThreads(av) ==
    IF Len(av) + 1 > 1
    THEN (IF atoi(av[1]) < 1 THEN 1 ELSE atoi(av[1]))
    ELSE DEFAULT_NUM_THREADS

ParseBlock(av) ==
    IF Len(av) + 1 > 2
    THEN (IF atoi(av[2]) < 1 THEN 1 ELSE atoi(av[2]))
    ELSE DEFAULT_BLOCK_SIZE

\* What is written to results_file, piece by piece.
Tok(kd, x) == [k |-> kd, v |-> x]

Header(pr) ==
    <<Tok("title", 0)>> \o [i \in 1 .. num_funcs(pr) |-> Tok("col", i)] \o <<Tok("nl", 0)>>

InitBench ==
    /\ prog \in {"GEMM", "OptGEMM"}
    /\ argv \in (IF prog = "OptGEMM" THEN Argvs ELSE {<<>>})
    /\ cpu = NoCpu
    /\ build = "unseen"
    /\ proc = "run"
    /\ pc = "start"
    /\ num_threads = 1 /\ block_size = 1
    /\ s = 0 /\ f = 0 /\ run = 0
    /\ m = 0 /\ n = 0 /\ k = 0
    /\ A = <<>> /\ B = <<>> /\ C = <<>>
    /\ heap = "none"
    /\ rng = 0
    /\ hk = "none" /\ c0 = "zero"
    /\ calls = 0
    /\ kpc = "none" /\ tj = 0 /\ thr = <<>>
    /\ fbuf = <<>> /\ disk = <<>> /\ file = "closed"
    /\ log = <<>> /\ writes = {}
    /\ created = 0 /\ joined = 0 /\ allocs = 0 /\ frees = 0
    /\ badAccess = FALSE

\* main going on to the size loop whether or not fopen has succeeded.
StartIgnoreFailure ==
    /\ proc = "run" /\ pc = "start"
    /\ \E seed \in 0 .. MaxSeed : rng' = seed
    /\ IF prog = "OptGEMM"
       THEN num_threads' = ParseThreads(argv) /\ block_size' = ParseBlock(argv)
       ELSE UNCHANGED <<num_threads, block_size>>
    /\ \E opened \in BOOLEAN :
          /\ file' = IF opened THEN "open" ELSE file
          /\ fbuf' = IF opened THEN Header(prog) ELSE fbuf
          /\ pc' = "size"
          /\ proc' = proc
    /\ UNCHANGED <<prog, argv, cpu, build, s, f, run, m, n, k, A, B, C, heap, hk, c0, calls,
                   kpc, tj, thr, disk, log, writes, created, joined, allocs, frees,
                   badAccess>>

\* main up to its size loop: srand, the command line, fopen and the header.
Start ==
    /\ proc = "run" /\ pc = "start"
    /\ \E seed \in 0 .. MaxSeed : rng' = seed
    /\ IF prog = "OptGEMM"
       THEN num_threads' = ParseThreads(argv) /\ block_size' = ParseBlock(argv)
       ELSE UNCHANGED <<num_threads, block_size>>
    /\ \E opened \in BOOLEAN :
          IF opened
          THEN /\ file' = "open"
               /\ fbuf' = Header(prog)
               /\ pc' = "size"
               /\ proc' = proc
          ELSE /\ proc' = "exit1"
               /\ UNCHANGED <<file, fbuf, pc>>
    /\ UNCHANGED <<prog, argv, cpu, build, s, f, run, m, n, k, A, B, C, heap, hk, c0, calls,
                   kpc, tj, thr, disk, log, writes, created, joined, allocs, frees,
                   badAccess>>

\* The head of a size iteration: the size is printed to results_file, then
\* init_matrices allocates and fills A, B and C, or exits when a malloc fails
\* (exit writes out what stdio has buffered).
SizeBegin ==
    /\ proc = "run" /\ pc = "size" /\ s < num_sizes
    /\ LET size == sizes[s + 1]
       IN  \E allocated \in BOOLEAN :
             IF allocated
             THEN /\ m' = size /\ n' = size /\ k' = size
                  /\ A' = [off \in 0 .. size * size - 1 |-> RandNth(rng, off + 1)]
                  /\ B' = [off \in 0 .. size * size - 1 |->
                              RandNth(rng, size * size + off + 1)]
                  /\ rng' = RandNth(rng, size * size + size * size)
                  /\ C' = [off \in 0 .. size * size - 1 |-> Zero]
                  /\ heap' = "live"
                  /\ allocs' = allocs + 1
                  /\ fbuf' = Append(fbuf, Tok("size", size))
                  /\ f' = 0 /\ run' = 0
                  /\ pc' = "run"
                  /\ UNCHANGED <<proc, disk, file>>
             ELSE /\ proc' = "exit1"
                  /\ disk' = disk \o Append(fbuf, Tok("size", size))
                  /\ fbuf' = <<>>
                  /\ file' = "closed"
                  /\ UNCHANGED <<m, n, k, A, B, C, rng, heap, allocs, f, run, pc>>
    /\ UNCHANGED <<prog, argv, cpu, build, num_threads, block_size, s, hk, c0, calls, kpc, tj,
                   thr, log, writes, created, joined, frees, badAccess>>

\* A reset that clears the first row only (m elements, not m * n).
reset_first_row(Cm, mm, nn) ==
    [off \in DOMAIN Cm |-> IF off < mm THEN Zero ELSE Cm[off]]

\* reset_matrix_c(C, m, n) at the head of a run.
reset_matrix_c(Cm, mm, nn) ==
    [off \in DOMAIN Cm |-> IF off < mm * nn THEN Zero ELSE Cm[off]]

Reset ==
    /\ proc = "run" /\ pc = "run"
    /\ C' = reset_matrix_c(C, m, n)
    /\ badAccess' = (badAccess \/ heap # "live")
    /\ pc' = "invoke"
    /\ UNCHANGED <<prog, argv, cpu, build, proc, num_threads, block_size, s, f, run, m, n, k,
                   A, B, heap, rng, hk, c0, calls, kpc, tj, thr, fbuf, disk, file,
                   log, writes, created, joined, allocs, frees>>

\* The run loop with the bound off by one (run <= NUM_RUNS).
EndRunOneMore ==
    /\ proc = "run" /\ prog # "kernel" /\ pc = "returned"
    /\ run' = run + 1
    /\ pc' = IF run + 1 <= NUM_RUNS THEN "run" ELSE "record"
    /\ UNCHANGED <<prog, argv, cpu, build, proc, num_threads, block_size, s, f, m, n, k,
                   A, B, C, heap, rng, hk, c0, calls, kpc, tj, thr, fbuf, disk, file,
                   log, writes, created, joined, allocs, frees, badAccess>>

\* The end of a run: the elapsed time is added, and the run loop goes on or ends.
EndRun ==
    /\ proc = "run" /\ prog # "kernel" /\ pc = "returned"
    /\ run' = run + 1
    /\ pc' = IF run + 1 < NUM_RUNS THEN "run" ELSE "record"
    /\ UNCHANGED <<prog, argv, cpu, build, proc, num_threads, block_size, s, f, m, n, k,
                   A, B, C, heap, rng, hk, c0, calls, kpc, tj, thr, fbuf, disk, file,
                   log, writes, created, joined, allocs, frees, badAccess>>

\* After the last run of a kernel: its mean time is printed to results_file,
\* and the next kernel starts or the row ends.
Record ==
    /\ proc = "run" /\ pc = "record"
    /\ fbuf' = Append(fbuf, Tok("avg", f + 1))
    /\ f' = f + 1
    /\ run' = 0
    /\ pc' = IF f + 1 < num_funcs(prog) THEN "run" ELSE "rowend"
    /\ UNCHANGED <<prog, argv, cpu, build, proc, num_threads, block_size, s, m, n, k,
                   A, B, C, heap, rng, hk, c0, calls, kpc, tj, thr, disk, file,
                   log, writes, created, joined, allocs, frees, badAccess>>

\* The end of a size iteration without free_matrices.
RowEndNoFree ==
    /\ proc = "run" /\ pc = "rowend"
    /\ disk' = disk \o Append(fbuf, Tok("nl", 0))
    /\ fbuf' = <<>>
    /\ s' = s + 1
    /\ pc' = "size"
    /\ UNCHANGED <<prog, argv, cpu, build, proc, num_threads, block_size, f, run, m, n, k,
                   A, B, C, heap, rng, hk, c0, calls, kpc, tj, thr, file,
                   log, writes, created, joined, allocs, frees, badAccess>>

\* The end of a size iteration without the fflush: the row stays in stdio's buffer.
RowEndNoFlush ==
    /\ proc = "run" /\ pc = "rowend"
    /\ fbuf' = Append(fbuf, Tok("nl", 0))
    /\ heap' = "freed"
    /\ frees' = frees + 1
    /\ badAccess' = (badAccess \/ heap # "live")
    /\ s' = s + 1
    /\ pc' = "size"
    /\ UNCHANGED <<prog, argv, cpu, build, proc, num_threads, block_size, f, run, m, n, k,
                   A, B, C, rng, hk, c0, calls, kpc, tj, thr, disk, file,
                   log, writes, created, joined, allocs>>

\* The end of a size iteration: the newline, fflush and free_matrices.
RowEnd ==
    /\ proc = "run" /\ pc = "rowend"
    /\ disk' = disk \o Append(fbuf, Tok("nl", 0))
    /\ fbuf' = <<>>
    /\ heap' = "freed"
    /\ frees' = frees + 1
    /\ badAccess' = (badAccess \/ heap # "live")
    /\ s' = s + 1
    /\ pc' = "size"
    /\ UNCHANGED <<prog, argv, cpu, build, proc, num_threads, block_size, f, run, m, n, k,
                   A, B, C, rng, hk, c0, calls, kpc, tj, thr, file,
                   log, writes, created, joined, allocs>>

\* After the last size: fclose and return 0.
Finish ==
    /\ proc = "run" /\ pc = "size" /\ s = num_sizes
    /\ disk' = disk \o fbuf
    /\ fbuf' = <<>>
    /\ file' = "closed"
    /\ proc' = "exit0"
    /\ pc' = "done"
    /\ UNCHANGED <<prog, argv, cpu, build, num_threads, block_size, s, f, run, m, n, k,
                   A, B, C, heap, rng, hk, c0, calls, kpc, tj, thr,
                   log, writes, created, joined, allocs, frees, badAccess>>

Next ==
    \/ Start \/ SizeBegin \/ Reset \/ Invoke \/ Create \/ Join \/ Begin \/ Step \/ Wild
    \/ EndRun \/ Record \/ RowEnd \/ Finish

Spec == InitBench /\ [][Next]_vars

\* ------------------------------------------------ the RISC-V programs
\* recursivefact.asm and the iterative factorial program.  An instruction is
\* named by its position in the text segment (1 is the first); ra holds such
\* a position.  Registers are 32 bits wide.

\* The largest argument of the inputs that are tried besides the program's own.
MaxArg == 3

\* .data: the address of test_input, and sp when the program starts.
DataBase == 268500992
StackTop == 2147479548

\* test_input: the program's .word 3 6 7 8, and others with arguments 0, 1, ...
TestInputs ==
    {<<3, 6, 7, 8>>} \cup {<<x, 0, 1, x + 1>> : x \in 0 .. MaxArg}

Ins(op, rd, rs1, rs2, imm) == [op |-> op, rd |-> rd, rs1 |-> rs1, rs2 |-> rs2, imm |-> imm]

\* The labels.
main_loop == 4
main_exit == 29
factorial == 31
recursive == 35
setup == 35
loop == 37

\* main (lines 5-42, the same in both programs).
MainText ==
    << Ins("add", "t0", "x0", "x0", 0),
       Ins("addi", "t1", "x0", "x0", 4),
       Ins("la", "t2", "x0", "x0", DataBase),
       Ins("beq", "x0", "t0", "t1", main_exit),
       Ins("slli", "t3", "t0", "x0", 2),
       Ins("add", "t4", "t2", "t3", 0),
       Ins("lw", "a0", "t4", "x0", 0),
       Ins("addi", "sp", "sp", "x0", -20),
       Ins("sw", "x0", "sp", "t0", 0),
       Ins("sw", "x0", "sp", "t1", 4),
       Ins("sw", "x0", "sp", "t2", 8),
       Ins("sw", "x0", "sp", "t3", 12),
       Ins("sw", "x0", "sp", "t4", 16),
       Ins("jal", "ra", "x0", "x0", factorial),
       Ins("lw", "t0", "sp", "x0", 0),
       Ins("lw", "t1", "sp", "x0", 4),
       Ins("lw", "t2", "sp", "x0", 8),
       Ins("lw", "t3", "sp", "x0", 12),
       Ins("lw", "t4", "sp", "x0", 16),
       Ins("addi", "sp", "sp", "x0", 20),
       Ins("addi", "a1", "a0", "x0", 0),
       Ins("addi", "a0", "x0", "x0", 1),
       Ins("ecall", "x0", "x0", "x0", 0),
       Ins("addi", "a1", "x0", "x0", 32),
       Ins("addi", "a0", "x0", "x0", 11),
       Ins("ecall", "x0", "x0", "x0", 0),
       Ins("addi", "t0", "t0", "x0", 1),
       Ins("jal", "x0", "x0", "x0", main_loop),
       Ins("addi", "a0", "x0", "x0", 10),
       Ins("ecall", "x0", "x0", "x0", 0) >>

\* factorial of recursivefact.asm (lines 44-69): the text ends after
\* addi sp, sp, 8.
RecursiveText ==
    << Ins("addi", "t0", "x0", "x0", 1),
       Ins("bgt", "x0", "a0", "t0", recursive),
       Ins("addi", "a0", "t0", "x0", 0),
       Ins("jalr", "x0", "ra", "x0", 0),
       Ins("addi", "sp", "sp", "x0", -8),
       Ins("sw", "x0", "sp", "ra", 4),
       Ins("sw", "x0", "sp", "a0", 0),
       Ins("addi", "a0", "a0", "x0", -1),
       Ins("jal", "ra", "x0", "x0", factorial),
       Ins("lw", "t0", "sp", "x0", 0),
       Ins("mul", "a0", "a0", "t0", 0),
       Ins("lw", "ra", "sp", "x0", 4),
       Ins("addi", "sp", "sp", "x0", 8) >>

\* factorial of the iterative program (lines 44-68).
IterativeText ==
    << Ins("addi", "t0", "x0", "x0", 1),
       Ins("bgt", "x0", "a0", "t0", setup),
       Ins("addi", "a0", "t0", "x0", 0),
       Ins("jalr", "x0", "ra", "x0", 0),
       Ins("addi", "t1", "t0", "x0", 0),
       Ins("addi", "t2", "a0", "x0", 0),
       Ins("mul", "t1", "t1", "t2", 0),
       Ins("addi", "t2", "t2", "x0", -1),
       Ins("bgt", "x0", "t2", "x0", loop),
       Ins("addi", "a0", "t1", "x0", 0),
       Ins("jalr", "x0", "ra", "x0", 0) >>

Text(pr) ==
    MainText \o (IF pr = "recursivefact" THEN RecursiveText ELSE IterativeText)

RiscProgs == {"recursivefact", "iterativefact"}

\* Register read and write; x0 is hard-wired to 0.
Reg(c, r) == IF r = "x0" THEN 0 ELSE c.x[r]

SetReg(c, r, v) == IF r = "x0" THEN c ELSE [c EXCEPT !.x[r] = v]

\* A word of memory; a word never stored reads as 0.
Load(c, addr) == IF addr \in DOMAIN c.mem THEN c.mem[addr] ELSE 0

Store(c, addr, v) ==
    [c EXCEPT !.mem = [a \in DOMAIN c.mem \cup {addr} |-> IF a = addr THEN v ELSE c.mem[a]]]

RECURSIVE Shl(_, _)
Shl(v, sh) == IF sh = 0 THEN v ELSE Shl(AddW(v, v), sh - 1)

\* mul: the low 32 bits of the product.
Mul32(a, b) ==
    LET abs(v) == IF v < 0 THEN NegW(v) ELSE v
    IN  IF abs(a) <= abs(b) /\ a # INT_MIN THEN MulW(a, b) ELSE MulW(b, a)

\* jal ra: the call is noted with its argument, its sp and its return position.
Call(c) == [c EXCEPT !.frames = Append(@, [arg |-> c.x.a0, sp |-> c.x.sp, ret |-> c.pc + 1])]

\* jalr x0, 0(ra): the return is noted with what it leaves, for the call it ends.
Return(c, to) ==
    IF c.frames = <<>> THEN c
    ELSE [c EXCEPT !.frames = SubSeq(@, 1, Len(@) - 1),
                   !.last = <<[arg |-> c.frames[Len(c.frames)].arg,
                               sp0 |-> c.frames[Len(c.frames)].sp,
                               ret |-> c.frames[Len(c.frames)].ret,
                               a0 |-> c.x.a0, sp |-> c.x.sp, to |-> to]>>]

\* ecall: a0 = 1 prints the integer a1, 11 the character a1, 10 exits.
Ecall(c) ==
    CASE c.x.a0 = 1 -> [c EXCEPT !.out = Append(@, [k |-> "int", v |-> c.x.a1])]
      [] c.x.a0 = 11 -> [c EXCEPT !.out = Append(@, [k |-> "char", v |-> c.x.a1])]
      [] c.x.a0 = 10 -> [c EXCEPT !.st = "exit"]
      [] OTHER -> c

\* The effect of one instruction; pc goes to the next one unless it branches.
Exec(in, c) ==
    LET nxt(d) == [d EXCEPT !.pc = c.pc + 1]
        a == Reg(c, in.rs1)
        b == Reg(c, in.rs2)
    IN  CASE in.op = "add" -> nxt(SetReg(c, in.rd, AddW(a, b)))
          [] in.op = "addi" -> nxt(SetReg(c, in.rd, AddW(a, in.imm)))
          [] in.op = "slli" -> nxt(SetReg(c, in.rd, Shl(a, in.imm)))
          [] in.op = "la" -> nxt(SetReg(c, in.rd, in.imm))
          [] in.op = "mul" -> nxt(SetReg(c, in.rd, Mul32(a, b)))
          [] in.op = "lw" -> nxt(SetReg(c, in.rd, Load(c, a + in.imm)))
          [] in.op = "sw" -> nxt(Store(c, a + in.imm, b))
          [] in.op = "beq" -> [c EXCEPT !.pc = IF a = b THEN in.imm ELSE c.pc + 1]
          [] in.op = "bgt" -> [c EXCEPT !.pc = IF a > b THEN in.imm ELSE c.pc + 1]
          [] in.op = "jal" ->
               [(IF in.rd = "ra" THEN Call(SetReg(c, in.rd, c.pc + 1)) ELSE c)
                   EXCEPT !.pc = in.imm]
          [] in.op = "jalr" -> [Return(c, a + in.imm) EXCEPT !.pc = a + in.imm]
          [] in.op = "ecall" -> nxt(Ecall(c))

InitRisc ==
    /\ prog \in RiscProgs
    /\ \E data \in TestInputs :
          cpu = [st |-> "run", pc |-> 1,
                 x |-> [r \in {"t0", "t1", "t2", "t3", "t4", "a0", "a1", "ra", "sp"} |->
                          IF r = "sp" THEN StackTop ELSE 0],
                 mem |-> [a \in {DataBase + 4 * q : q \in 0 .. 3} |->
                            data[((a - DataBase) \div 4) + 1]],
                 out |-> <<>>, frames |-> <<>>, last |-> <<>>]
    /\ argv = <<>> /\ build = "unseen" /\ proc = "run" /\ pc = "asm"
    /\ num_threads = 1 /\ block_size = 1
    /\ s = 0 /\ f = 0 /\ run = 0
    /\ m = 0 /\ n = 0 /\ k = 0
    /\ A = <<>> /\ B = <<>> /\ C = <<>>
    /\ heap = "none"
    /\ rng = 0
    /\ hk = "none" /\ c0 = "zero"
    /\ calls = 0
    /\ kpc = "none" /\ tj = 0 /\ thr = <<>>
    /\ fbuf = <<>> /\ disk = <<>> /\ file = "closed"
    /\ log = <<>> /\ writes = {}
    /\ created = 0 /\ joined = 0 /\ allocs = 0 /\ frees = 0
    /\ badAccess = FALSE

\* The machine executes the instruction at pc.
Execute ==
    /\ prog \in RiscProgs /\ cpu.st = "run"
    /\ cpu.pc \in DOMAIN Text(prog)
    /\ cpu' = Exec(Text(prog)[cpu.pc], cpu)
    /\ UNCHANGED <<prog, argv, build, proc, pc, num_threads, block_size, s, f, run, m, n, k,
                   A, B, C, heap, rng, hk, c0, calls, kpc, tj, thr, fbuf, disk, file,
                   log, writes, created, joined, allocs, frees, badAccess>>

\* pc is past the last instruction of the text segment: the simulator stops
\* the program there ("dropped off bottom").
DropOff ==
    /\ prog \in RiscProgs /\ cpu.st = "run"
    /\ cpu.pc \notin DOMAIN Text(prog)
    /\ cpu' = [cpu EXCEPT !.st = "dropped"]
    /\ UNCHANGED <<prog, argv, build, proc, pc, num_threads, block_size, s, f, run, m, n, k,
                   A, B, C, heap, rng, hk, c0, calls, kpc, tj, thr, fbuf, disk, file,
                   log, writes, created, joined, allocs, frees, badAccess>>

NextRisc == Execute \/ DropOff

SpecRisc == InitRisc /\ [][NextRisc]_vars

\* ================================================================ claims

\* The number of times x occurs in seq.
Count(seq, x) == Cardinality({q \in DOMAIN seq : seq[q] = x})

\* Element (i, j) of C holds, besides its base, every product A[i][p]*B[p][j],
\* p in 0 .. k-1, exactly `times` times and nothing else.
IsProduct(e, i, j, times) ==
    /\ Len(e.terms) = times * k
    /\ \A p \in 0 .. k - 1 : Count(e.terms, <<i * k + p, p * n + j>>) = times

\* C as the caller of a kernel first passed it.
InitialC == [off \in 0 .. m * n - 1 |-> [base |-> c0, terms |-> <<>>]]

\* C after cnt calls of a single-threaded kernel on Cm.
RECURSIVE RepeatKernel(_, _, _)
RepeatKernel(kind, cnt, Cm) ==
    IF cnt = 0 THEN Cm
    ELSE RepeatKernel(kind, cnt - 1, RunKernel(kind, m, n, k, block_size, Cm))

\* The workers of the current call that have computed their range.
Ranged == {t \in DOMAIN thr : thr[t].st \in {"loop", "done", "joined"}}

\* Some worker of the call overflows in its range computation.
CallOverflows ==
    /\ CurKind = "mtb"
    /\ \E t \in 0 .. num_threads - 1 : BlockRangeOvf(m, block_size, num_threads, t)

\* C1 (as claimed): one call of any kernel variant, with any block size and
\* thread count, on an all-zero C leaves C[i][j] = sum over p of A[i][p]*B[p][j];
\* A=[[1,2],[3,4]], B=[[5,6],[7,8]] gives C=[[19,22],[43,50]].
C1_ProductOfAB ==
    (prog = "kernel" /\ c0 = "zero" /\ pc = "returned" /\ calls = 1) =>
        /\ \A i \in 0 .. m - 1, j \in 0 .. n - 1 :
              C[i * n + j].base = "zero" /\ IsProduct(C[i * n + j], i, j, 1)
        /\ (m = 2 /\ n = 2 /\ k = 2) =>
              /\ Val(C[0], A, B) = 19 /\ Val(C[1], A, B) = 22
              /\ Val(C[2], A, B) = 43 /\ Val(C[3], A, B) = 50

\* What holds of C1: the same, for every call in which no worker's range
\* computation overflows (every variant but mt_blocked with a block size near
\* INT_MAX).
ProductUnlessOverflow == CallOverflows \/ C1_ProductOfAB

\* C2 (as claimed): the ranges the workers of a call compute (rows in
\* mt_mnk_thread, row blocks and the rows derived from them in
\* mt_blocked_mnk_thread) cover every unit exactly once; 10 units over 3
\* workers are [0,4), [4,8), [8,10).
C2_RangesCoverOnce ==
    /\ (prog = "kernel" /\ Threaded(hk) /\ kpc # "none" /\ Ranged = DOMAIN thr) =>
          \A u \in 0 .. m - 1 :
             Cardinality({t \in DOMAIN thr : thr[t].lo <= u /\ u < thr[t].hi}) = 1
    /\ (prog = "kernel" /\ hk = "mtb") =>
          \A u \in 0 .. i_blocks(m, block_size) - 1 :
             Cardinality({t \in 0 .. num_threads - 1 :
                             /\ start_block(m, block_size, num_threads, t) <= u
                             /\ u < end_block(m, block_size, num_threads, t)}) = 1
    /\ <<start_row(10, 3, 0), end_row(10, 3, 0)>> = <<0, 4>>
    /\ <<start_row(10, 3, 1), end_row(10, 3, 1)>> = <<4, 8>>
    /\ <<start_row(10, 3, 2), end_row(10, 3, 2)>> = <<8, 10>>

\* What holds of C2: the same, unless a range computation of the call overflows.
CoverUnlessOverflow == CallOverflows \/ C2_RangesCoverOnce

\* C3 (as claimed): during a multithreaded call, under every interleaving,
\* every store of a worker is to an element of C in the worker's own row range,
\* no two workers store to the same element, and no worker stores to A or B.
C3_DisjointWrites ==
    /\ \A w \in writes :
          /\ w.buf = "C"
          /\ thr[w.t].lo <= w.off \div n
          /\ w.off \div n < thr[w.t].hi
    /\ \A w1 \in writes, w2 \in writes :
          (w1.buf = w2.buf /\ w1.off = w2.off) => w1.t = w2.t

\* What holds of C3: the same, unless a range computation of the call overflows.
DisjointUnlessOverflow == CallOverflows \/ C3_DisjointWrites

\* C4: a multithreaded call creates num_threads workers and returns only once
\* each has returned and was joined; outside a call no worker is running, and
\* every call creates its own workers (num_threads pthread_create per call).
C4_JoinedBeforeReturn ==
    (prog = "kernel" /\ Threaded(hk)) =>
        /\ kpc = "none" =>
              /\ \A t \in DOMAIN thr : thr[t].st = "joined"
              /\ created = calls * num_threads
              /\ joined = calls * num_threads
        /\ pc = "returned" => DOMAIN thr = 0 .. num_threads - 1
        /\ kpc # "none" =>
              /\ created = calls * num_threads
                             + Cardinality({t \in DOMAIN thr : thr[t].st # "idle"})
              /\ joined = calls * num_threads
                             + Cardinality({t \in DOMAIN thr : thr[t].st = "joined"})

C4_Witness ==
    /\ prog = "kernel" /\ hk = "mtb" /\ pc = "returned" /\ calls = 2
    /\ num_threads = 3 /\ created = 6 /\ m = 2 /\ n = 2 /\ k = 2

\* C5: under every interleaving, mt_mnk_gemm leaves the C that mnk_gemm leaves
\* (the same products added in the same order to every element), for 1, 2 and
\* more than m workers; with more workers than rows the workers t >= m store nothing.
C5_MtEqualsMnk ==
    (prog = "kernel" /\ hk = "mt") =>
        /\ pc = "returned" => C = RepeatKernel("mnk", calls, InitialC)
        /\ num_threads > m => \A w \in writes : w.t < m

C5_Witness ==
    /\ prog = "kernel" /\ hk = "mt" /\ pc = "returned" /\ calls = 1
    /\ num_threads = 3 /\ m = 2 /\ n = 2 /\ k = 2
    /\ thr[2].st = "joined" /\ thr[2].lo >= thr[2].hi

\* C6 (as claimed): blocked_mnk_gemm and mt_blocked_mnk_gemm process every
\* triple (i, j, p) exactly once per call for every block size >= 1, dividing
\* the dimension or not, or larger than it, so the result does not depend on
\* the block size.
C6_BlockSizeInvariant ==
    (prog = "kernel" /\ Tiled(hk) /\ pc = "returned") =>
        \A i \in 0 .. m - 1, j \in 0 .. n - 1 :
            /\ IsProduct(C[i * n + j], i, j, calls)
            /\ Val(C[i * n + j], A, B)
                 = Val(RepeatKernel("blocked", calls, InitialC)[i * n + j], A, B)

\* What holds of C6: the same for blocked_mnk_gemm with every block size, and
\* for mt_blocked_mnk_gemm unless a range computation overflows.
BlockInvariantUnlessOverflow == CallOverflows \/ C6_BlockSizeInvariant

ExpectedLog(pr) ==
    [q \in 1 .. num_sizes * num_funcs(pr) * NUM_RUNS |->
        << (q - 1) \div (num_funcs(pr) * NUM_RUNS),
           ((q - 1) \div NUM_RUNS) % num_funcs(pr),
           (q - 1) % NUM_RUNS >>]

\* C8: in both mains every kernel invocation starts with every element of C
\* zero, and from init_matrices to the first invocation of a size C holds
\* nothing but zeros.
C8_ZeroAtInvocation ==
    (prog # "kernel") =>
        /\ (pc = "invoke" /\ kpc = "none") =>
              /\ DOMAIN C = 0 .. m * n - 1
              /\ \A off \in DOMAIN C : C[off] = Zero
        /\ (pc = "run" /\ f = 0 /\ run = 0) =>
              \A off \in DOMAIN C : C[off] = Zero

C8_Witness ==
    /\ prog = "OptGEMM" /\ pc = "invoke" /\ kpc = "none"
    /\ s = 1 /\ m = 2 /\ f = 3 /\ run = 2
    /\ Len(log) > 0

\* C9: the invocations happen in the order (size, kernel, run): the sizes in
\* list order, the kernels in declaration order, NUM_RUNS consecutive runs of
\* each; the matrices of an invocation have the size of its list entry, and a
\* run that ends normally has made all of them.
C9_InvocationOrder ==
    (prog # "kernel") =>
        /\ Len(log) <= Len(ExpectedLog(prog))
        /\ log = SubSeq(ExpectedLog(prog), 1, Len(log))
        /\ pc = "invoke" => (m = sizes[s + 1] /\ n = m /\ k = m)
        /\ (pc = "invoke" /\ kpc = "none") => ExpectedLog(prog)[Len(log) + 1] = <<s, f, run>>
        /\ proc = "exit0" => log = ExpectedLog(prog)

C9_Witness ==
    /\ prog = "GEMM" /\ proc = "exit0"
    /\ Len(log) = num_sizes * 6 * NUM_RUNS

\* C10: the matrices of a size are allocated once, are live during all of its
\* kernels and runs and are released once after the last of them and before
\* the next allocation; nothing accesses a released buffer, and at most one
\* set of matrices is live.
C10_BufferLifecycle ==
    (prog # "kernel") =>
        /\ ~badAccess
        /\ frees = s
        /\ allocs = s + (IF heap = "live" THEN 1 ELSE 0)
        /\ heap = "live" <=> pc \in {"run", "invoke", "returned", "record", "rowend"}
        /\ proc = "exit0" => (allocs = num_sizes /\ frees = num_sizes)

C10_Witness ==
    /\ prog = "OptGEMM" /\ proc = "exit0"
    /\ allocs = num_sizes /\ frees = num_sizes /\ heap = "freed"

\* The complete CSV row of a size, and the rows of the first cnt sizes.
Row(pr, size) ==
    <<Tok("size", size)>> \o [i \in 1 .. num_funcs(pr) |-> Tok("avg", i)] \o <<Tok("nl", 0)>>

RECURSIVE Rows(_, _)
Rows(pr, cnt) == IF cnt = 0 THEN <<>> ELSE Rows(pr, cnt - 1) \o Row(pr, sizes[cnt])

\* C11 (as claimed): when the allocation for a size fails the process ends and
\* the file holds the header and the complete rows of the sizes before it, and
\* no part of the failing size's row.
C11_NoPartialRow ==
    (prog # "kernel" /\ proc = "exit1" /\ pc = "size") =>
        disk = Header(prog) \o Rows(prog, s)

\* What holds of C11: the file ends with the failing size, without a newline.
PartialRowOnAllocFailure ==
    (prog # "kernel" /\ proc = "exit1" /\ pc = "size") =>
        disk = Header(prog) \o Rows(prog, s) \o <<Tok("size", sizes[s + 1])>>

\* A string atoi reads as a whole: an optional sign and one or more digits.
IsNumber(str) ==
    LET ds == IF str # <<>> /\ Head(str) \in {"-", "+"} THEN Tail(str) ELSE str
    IN  ds # <<>> /\ \A q \in DOMAIN ds : ds[q] \in DOMAIN Digit

\* The value the claim gives to an argument: the default when it is missing
\* or not a number, 1 when it is a number below 1, and else the number.
Claimed(av, idx, default) ==
    IF Len(av) < idx \/ ~IsNumber(av[idx]) THEN default
    ELSE IF atoi(av[idx]) < 1 THEN 1 ELSE atoi(av[idx])

\* C12 (as claimed): a missing or invalid thread count gives 4 and a missing or
\* invalid block size 32, a number below 1 gives 1, and the values that reach
\* the kernels are >= 1.
C12_ArgumentDefaults ==
    (prog = "OptGEMM" /\ pc # "start") =>
        /\ num_threads = Claimed(argv, 1, DEFAULT_NUM_THREADS)
        /\ block_size = Claimed(argv, 2, DEFAULT_BLOCK_SIZE)
        /\ num_threads >= 1 /\ block_size >= 1

\* What holds of C12: the defaults for missing arguments only; an argument that
\* is present gives max(1, atoi of it), so "abc" gives 1 and "2x" gives 2.
ArgumentsClamped ==
    (prog = "OptGEMM" /\ pc # "start") =>
        /\ num_threads = (IF Len(argv) < 1 THEN DEFAULT_NUM_THREADS
                          ELSE IF atoi(argv[1]) < 1 THEN 1 ELSE atoi(argv[1]))
        /\ block_size = (IF Len(argv) < 2 THEN DEFAULT_BLOCK_SIZE
                         ELSE IF atoi(argv[2]) < 1 THEN 1 ELSE atoi(argv[2]))
        /\ num_threads >= 1 /\ block_size >= 1

\* C13: results_file holds the header, then for every size in order one row:
\* the size, one mean per kernel in declaration order, a newline; the row of a
\* size is written out to the file before the next size's matrices are
\* allocated, and a run that ends normally leaves exactly one row per size.
C13_RowPerSize ==
    (prog # "kernel" /\ pc # "start") =>
        /\ (proc = "run" /\ pc = "size") =>
              /\ disk \o fbuf = Header(prog) \o Rows(prog, s)
              /\ s > 0 => (fbuf = <<>> /\ heap = "freed")
        /\ (proc = "run" /\ pc \in {"run", "invoke", "returned", "record", "rowend"}) =>
              disk \o fbuf = Header(prog) \o Rows(prog, s) \o <<Tok("size", sizes[s + 1])>>
                               \o [i \in 1 .. f |-> Tok("avg", i)]
        /\ proc = "exit0" => disk = Header(prog) \o Rows(prog, num_sizes)

C13_Witness ==
    /\ prog = "OptGEMM" /\ proc = "run" /\ pc = "size" /\ s = num_sizes
    /\ disk = Header(prog) \o Rows(prog, num_sizes)
    /\ Len(disk) = 6 + 6 * num_sizes

\* C14: when fopen fails main returns 1 at once: no matrix was allocated, no
\* kernel invoked and nothing written; past that point the file is open.
C14_OpenFailureExits ==
    (prog # "kernel") =>
        /\ pc = "start" =>
              /\ proc \in {"run", "exit1"}
              /\ file = "closed" /\ heap = "none"
              /\ allocs = 0 /\ log = <<>> /\ created = 0
              /\ disk = <<>> /\ fbuf = <<>>
        /\ (proc = "run" /\ pc # "start") => file = "open"

C14_Witness ==
    /\ prog = "OptGEMM" /\ proc = "exit1" /\ pc = "start"
    /\ file = "closed" /\ allocs = 0

\* C15: when m, n or k is 0, no kernel variant writes an element of C, with
\* any block size and thread count and at any point of the call: C is as the
\* caller passed it, no worker has stored anything, inside a matrix or out.
C15_ZeroDimensionNoOp ==
    (prog = "kernel" /\ (m = 0 \/ n = 0 \/ k = 0)) =>
        /\ C = InitialC
        /\ writes = {}
        /\ proc \notin {"segv", "corrupt"}
        /\ \A t \in DOMAIN thr : thr[t].st # "loop"

C15_Witness ==
    /\ prog = "kernel" /\ hk = "mtb" /\ pc = "returned" /\ calls = 1
    /\ m = 2 /\ n = 2 /\ k = 0 /\ c0 = "c0"
    /\ num_threads = 3 /\ block_size = 1500000000
    /\ C = InitialC

\* ceil(a / b) for a >= 0, b >= 1.
Ceil(a, b) == (a + b - 1) \div b

\* C16 (as claimed): every worker's range [start, end), in rows and in row
\* blocks, has 0 <= start <= end <= total, has size ceil(total / workers)
\* unless it is the last worker's, and is empty when start >= total.
C16_RangeShape ==
    /\ (prog = "kernel" /\ hk = "mt") =>
          \A t \in Ranged :
             LET lo == thr[t].lo
                 hi == thr[t].hi
             IN  /\ 0 <= lo /\ lo <= hi /\ hi <= m
                 /\ t < num_threads - 1 => hi - lo = Ceil(m, num_threads)
                 /\ lo >= m => lo = hi
    /\ (prog = "kernel" /\ hk = "mtb") =>
          \A t \in Ranged :
             LET lo == start_block(m, block_size, num_threads, t)
                 hi == end_block(m, block_size, num_threads, t)
                 total == Ceil(m, block_size)
             IN  /\ 0 <= lo /\ lo <= hi /\ hi <= total
                 /\ t < num_threads - 1 => hi - lo = Ceil(total, num_threads)
                 /\ lo >= total => lo = hi
                 /\ 0 <= thr[t].lo /\ thr[t].lo <= thr[t].hi /\ thr[t].hi <= m

\* What holds of C16 for every worker whose range computation does not
\* overflow: start = t * ceil(total / workers) and end = min(start + ceil, total),
\* so end <= total, and a worker with start >= total has end = total <= start
\* (start may exceed end and the bound) and executes nothing.
RangeShapeInCode ==
    (prog = "kernel" /\ Threaded(hk)) =>
        \A t \in Ranged :
           (hk = "mtb" /\ BlockRangeOvf(m, block_size, num_threads, t))
           \/ LET unit == IF hk = "mt" THEN 1 ELSE block_size
                  total == Ceil(m, unit)
                  c == Ceil(total, num_threads)
              IN  /\ thr[t].lo = t * c * unit
                  /\ thr[t].hi <= m
                  /\ t * c < total =>
                        /\ thr[t].lo < thr[t].hi
                        /\ thr[t].hi = (IF (t + 1) * c < total THEN (t + 1) * c * unit ELSE m)
                  /\ t * c >= total =>
                        /\ thr[t].hi = m
                        /\ thr[t].st # "loop"
                        /\ \A w \in writes : w.t # t

Max3(a, b, c) ==
    IF a >= b /\ a >= c THEN a ELSE IF b >= c THEN b ELSE c

\* C17 (as claimed): with max(m, n, k) <= block_size <= 2^31 - 1 the blocked
\* kernels are mnk_gemm: the row-block count (m + b - 1) / b is 1 for m >= 1,
\* the call returns, and C is the C of mnk_gemm, product for product.
C17_LargeBlockDegenerates ==
    (prog = "kernel" /\ Tiled(hk) /\ block_size >= Max3(m, n, k)) =>
        /\ (hk = "mtb" /\ m >= 1 /\ Ranged # {}) => i_blocks(m, block_size) = 1
        /\ proc = "run"
        /\ pc = "returned" => C = RepeatKernel("mnk", calls, InitialC)

\* What holds of C17: the same for blocked_mnk_gemm, and for
\* mt_blocked_mnk_gemm while m + block_size - 1 <= 2^31 - 1.
LargeBlockUnlessOverflow == CallOverflows \/ C17_LargeBlockDegenerates

\* C18 (as claimed): every access of every kernel is inside its matrix: a
\* worker that executes the innermost statement has 0 <= i < m, 0 <= j < n,
\* 0 <= p < k, every store is to an element of C, and no access faults.
C18_AccessesInBounds ==
    (prog = "kernel") =>
        /\ \A t \in DOMAIN thr :
              thr[t].st = "loop" => InBounds(WorkerCtx(t), thr[t].it.v)
        /\ \A w \in writes : w.buf = "C" /\ w.off \in 0 .. m * n - 1
        /\ proc \notin {"segv", "corrupt"}
        /\ DOMAIN C = 0 .. m * n - 1

\* What holds of C18: the same, unless a range computation of the call overflows.
InBoundsUnlessOverflow == CallOverflows \/ C18_AccessesInBounds

\* The products of element (i, j) in ascending order of p, cnt times over.
RECURSIVE Ascending(_, _, _)
Ascending(i, j, cnt) ==
    IF cnt = 0 THEN <<>>
    ELSE Ascending(i, j, cnt - 1) \o [q \in 1 .. k |-> <<i * k + q - 1, (q - 1) * n + j>>]

\* p is a prefix of q.
IsPrefix(p, q) == Len(p) <= Len(q) /\ p = SubSeq(q, 1, Len(p))

\* C19 (as claimed): in every kernel variant, with any block size and thread
\* count and under every interleaving, the products of an element C[i][j] are
\* added in ascending order of p, each once per call, so that all variants
\* give the same C exactly.
C19_AscendingReduction ==
    (prog = "kernel") =>
        \A i \in 0 .. m - 1, j \in 0 .. n - 1 :
            /\ pc = "returned" => C[i * n + j].terms = Ascending(i, j, calls)
            /\ proc = "run" => IsPrefix(C[i * n + j].terms, Ascending(i, j, calls + 1))

\* What holds of C19: the same, unless a range computation of the call overflows.
AscendingUnlessOverflow == CallOverflows \/ C19_AscendingReduction

\* n!
RECURSIVE Fact(_)
Fact(x) == IF x <= 1 THEN 1 ELSE x * Fact(x - 1)

\* The test_input of the run, read back from .data.
Input(q) == cpu.mem[DataBase + 4 * (q - 1)]

\* What main prints for the first cnt inputs: each factorial and a space.
RECURSIVE Printed(_)
Printed(cnt) ==
    IF cnt = 0 THEN <<>>
    ELSE Printed(cnt - 1) \o <<[k |-> "int", v |-> Fact(Input(cnt))], [k |-> "char", v |-> 32]>>

\* A program that calls factorial, returns from every call to the instruction
\* after it with a0 = n! and sp as at the call, and ends at the exit ecall
\* having printed the four factorials.
ReturnsFactorial(pr) ==
    (prog = pr) =>
        /\ cpu.st # "dropped"
        /\ cpu.last # <<>> =>
              /\ cpu.last[1].a0 = Fact(cpu.last[1].arg)
              /\ cpu.last[1].sp = cpu.last[1].sp0
              /\ cpu.last[1].to = cpu.last[1].ret
        /\ cpu.st = "exit" => (cpu.out = Printed(4) /\ cpu.x.sp = StackTop)

\* C20 (as claimed): in the recursive program every call jal ra, factorial
\* with n >= 0 returns to the instruction after the call with a0 = n! and sp
\* as at the call, and main goes through all four inputs to the exit ecall.
C20_RecursiveReturns == ReturnsFactorial("recursivefact")

\* What holds: the iterative program does all of that; the recursive one does
\* for the calls with n <= 1 only (the base case, which ends in jalr).
IterativeReturns == ReturnsFactorial("iterativefact")

BaseCaseReturns ==
    (prog = "recursivefact") =>
        /\ cpu.last # <<>> =>
              /\ cpu.last[1].arg <= 1 /\ cpu.last[1].a0 = 1
              /\ cpu.last[1].sp = cpu.last[1].sp0
              /\ cpu.last[1].to = cpu.last[1].ret
        /\ cpu.st = "dropped" => \E fr \in DOMAIN cpu.frames : cpu.frames[fr].arg >= 2

====
